---- MODULE Spec2Model ----
(***************************************************************************)
(* Model of KubeJobSub/AzureBatch.py: configuration parsing and            *)
(* validation, the job lifecycle of __main__ (stage inputs, create pool,   *)
(* job and task, poll for completion, delete job and pool, download the    *)
(* outputs, delete the containers) against an object store and a batch     *)
(* service that may fail any call.                                         *)
(***************************************************************************)
EXTENDS Integers, Sequences, FiniteSets, TLC

VARIABLES
    pc,                  \* position of __main__ (the line it is about to run)
    download_output_files, \* args.download_output_files (False when -d is given)
    config_options,      \* the lines read from the configuration file
    azurebatch,          \* the AzureBatch object
    error,               \* the exception that ended the run and the step it left
    error_options,       \* the list the raised AttributeError reports
    resource_files,      \* the list upload_input_to_blob_storage returned
    containers,          \* object store: container name -> (blob name -> content)
    pools,               \* batch service: ids of the existing pools
    jobs,                \* batch service: ids of the existing jobs
    tasks,               \* batch service: tasks of the job, a sequence of records
    tasks_listed,        \* wait_for_tasks_to_complete: the listing of the last round
    all_tasks_completed, \* wait_for_tasks_to_complete: its loop flag
    local_dirs,          \* local file system: existing directories
    local_files,         \* local file system: files written by the download
    written,             \* the blobs the tasks have put into the output container
    output_directory,    \* the output_dir download_container is called with
    calls                \* every call made to the two services, in order

vars == <<pc, download_output_files, config_options, azurebatch, error,
          error_options, resource_files, containers, pools, jobs, tasks,
          tasks_listed, all_tasks_completed, local_dirs, local_files, written,
          output_directory, calls>>

(***************************************************************************)
(* Bounds.                                                                 *)
(***************************************************************************)
\* Lines of a configuration file after its leading block of scalar options.
MaxLines == 2

\* Scalar option lines a configuration file may leave out.
MaxMissing == 2

\* INPUT lines, and OUTPUT lines, of the configuration file of a run.
MaxRequests == 1

\* Rounds of the polling loop in one run.
MaxRounds == 2

\* Tasks of the job that wait_for_tasks_to_complete is called on by itself.
MaxTasks == 2

\* Calls made when the teardown methods are called by themselves.
MaxCalls == 3

(***************************************************************************)
(* Python values.                                                          *)
(***************************************************************************)
\* None, and a value that is set: an attribute holds <<>> or <<v>>.
None == <<>>

Some(v) == <<v>>

Last(s) == s[Len(s)]

Front(s) == SubSeq(s, 1, Len(s) - 1)

SeqsUpTo(S, n) == UNION {[1..k -> S] : k \in 0..n}

(***************************************************************************)
(* AzureBatch.__init__                                                     *)
(***************************************************************************)
\* vars(azurebatch_object): the attributes in the order __init__ sets them.
AttrOrder ==
    <<"batch_account_name", "batch_account_key", "batch_account_url",
      "storage_account_name", "storage_account_key", "job_name", "command",
      "vm_image", "vm_size", "input", "output">>

ListAttrs == {"input", "output"}

NewAzureBatch ==
    [batch_account_name |-> None,
     batch_account_key |-> None,
     batch_account_url |-> None,
     storage_account_name |-> None,
     storage_account_key |-> None,
     job_name |-> None,
     command |-> None,
     vm_image |-> None,
     vm_size |-> Some("Standard_D16s_v3"),
     input |-> <<>>,
     output |-> <<>>]

(***************************************************************************)
(* parse_configuration_file                                                *)
(***************************************************************************)
\* A line is what config_option.split(':=') sees of it: the text before the
\* first ':=' (the whole line when there is none), whether ':=' occurs, and
\* the text after it.
Line(option, sep, parameter) ==
    [option |-> option, sep |-> sep, parameter |-> parameter]

\* The option names of the if/elif chain and the attribute each one sets.
OptionAttr(option) ==
    CASE option = "BATCH_ACCOUNT_NAME" -> "batch_account_name"
      [] option = "BATCH_ACCOUNT_KEY" -> "batch_account_key"
      [] option = "BATCH_ACCOUNT_URL" -> "batch_account_url"
      [] option = "STORAGE_ACCOUNT_NAME" -> "storage_account_name"
      [] option = "STORAGE_ACCOUNT_KEY" -> "storage_account_key"
      [] option = "JOB_NAME" -> "job_name"
      [] option = "COMMAND" -> "command"
      [] option = "INPUT" -> "input"
      [] option = "OUTPUT" -> "output"
      [] option = "VM_IMAGE" -> "vm_image"
      [] option = "VM_SIZE" -> "vm_size"
      [] OTHER -> ""

\* One pass of the loop body over a line that has a parameter: the object and
\* the unrecognized list after it.
ParseOptionDropsLater(st, line) ==
    LET attr == OptionAttr(line.option) IN
    IF attr = ""
    THEN [st EXCEPT !.unrecognized_options =
              IF @ = <<>> THEN <<line.option>> ELSE @]
    ELSE IF attr \in ListAttrs
    THEN [st EXCEPT !.azurebatch[attr] = Append(@, line.parameter)]
    ELSE [st EXCEPT !.azurebatch[attr] = Some(line.parameter)]

ParseOption(st, line) ==
    LET attr == OptionAttr(line.option) IN
    IF attr = ""
    THEN [st EXCEPT !.unrecognized_options = Append(@, line.option)]
    ELSE IF attr \in ListAttrs
    THEN [st EXCEPT !.azurebatch[attr] = Append(@, line.parameter)]
    ELSE [st EXCEPT !.azurebatch[attr] = Some(line.parameter)]

\* The for loop from line i on. x[1] raises IndexError on a line without ':='
\* and the exception leaves the function at that line.
RECURSIVE ParseLoop(_, _, _)
ParseLoop(lines, i, st) ==
    IF i > Len(lines)
    THEN st
    ELSE IF ~lines[i].sep
    THEN [st EXCEPT !.error = "IndexError"]
    ELSE ParseLoop(lines, i + 1, ParseOption(st, lines[i]))

\* The outcome of parse_configuration_file: the exception raised ("" when it
\* returns), the object, and the list the AttributeError reports.
parse_configuration_file(lines) ==
    LET st == ParseLoop(lines, 1,
                  [error |-> "",
                   azurebatch |-> NewAzureBatch,
                   unrecognized_options |-> <<>>])
    IN  IF st.error # ""
        THEN st
        ELSE IF Len(st.unrecognized_options) > 0
        THEN [st EXCEPT !.error = "AttributeError"]
        ELSE st

(***************************************************************************)
(* check_no_attributes_none                                                *)
(***************************************************************************)
\* attr.upper()
Upper(attr) ==
    CASE attr = "batch_account_name" -> "BATCH_ACCOUNT_NAME"
      [] attr = "batch_account_key" -> "BATCH_ACCOUNT_KEY"
      [] attr = "batch_account_url" -> "BATCH_ACCOUNT_URL"
      [] attr = "storage_account_name" -> "STORAGE_ACCOUNT_NAME"
      [] attr = "storage_account_key" -> "STORAGE_ACCOUNT_KEY"
      [] attr = "job_name" -> "JOB_NAME"
      [] attr = "command" -> "COMMAND"
      [] attr = "vm_image" -> "VM_IMAGE"
      [] attr = "vm_size" -> "VM_SIZE"
      [] attr = "input" -> "INPUT"
      [] attr = "output" -> "OUTPUT"

\* The loop over vars(azurebatch_object) from attribute i on.
RECURSIVE MissingFrom(_, _)
MissingFrom(obj, i) ==
    IF i > Len(AttrOrder)
    THEN <<>>
    ELSE LET attr == AttrOrder[i]
             rest == MissingFrom(obj, i + 1)
         IN  IF attr \in ListAttrs
             THEN IF Len(obj[attr]) = 0 THEN <<Upper(attr)>> \o rest ELSE rest
             ELSE IF obj[attr] = None THEN <<Upper(attr)>> \o rest ELSE rest

MissingAttributesFirstOnly(obj) ==
    LET all == MissingFrom(obj, 1) IN
    IF all = <<>> THEN <<>> ELSE <<all[1]>>

\* missing_attributes at the end of the loop.
MissingAttributes(obj) == MissingFrom(obj, 1)

(***************************************************************************)
(* The inputs of a run: the local files, the option values and the         *)
(* configuration files.                                                    *)
(***************************************************************************)
\* A path is the sequence of its components.
LocalInputFiles == {<<"in", "a.csv">>, <<"in", "b.csv">>, <<"alt", "a.csv">>}

JobNames == {"Job1", "job1"}

\* str.lower() of a job name.
Lower(name) ==
    CASE name = "Job1" -> "job1"
      [] name = "job1" -> "job1"

\* str.split() of an INPUT or OUTPUT value.
Split(parameter) ==
    CASE parameter = "in/*.csv" -> <<"in/*.csv">>
      [] parameter = "in/*.csv alt/*.csv remote/in" ->
             <<"in/*.csv", "alt/*.csv", "remote/in">>
      [] parameter = "out/*.json" -> <<"out/*.json">>
      [] parameter = "out/*.json log.txt" -> <<"out/*.json", "log.txt">>
      [] OTHER -> <<parameter>>

\* glob.glob(pattern) on the local files.
Glob(pattern) ==
    CASE pattern = "in/*.csv" -> <<<<"in", "a.csv">>, <<"in", "b.csv">>>>
      [] pattern = "alt/*.csv" -> <<<<"alt", "a.csv">>>>
      [] OTHER -> <<>>

\* The components of a directory given as text.
PathOf(text) ==
    CASE text = "remote/in" -> <<"remote", "in">>
      [] text = "out" -> <<"out">>
      [] text = "." -> <<".">>
      [] text = "" -> <<>>
      [] OTHER -> <<text>>

\* os.path.split(output_item)[0] of an OUTPUT pattern.
SplitHead(pattern) ==
    CASE pattern = "out/*.json" -> "out"
      [] OTHER -> ""

\* The lines that set the scalar options; VM_SIZE has a default and is not
\* among them.
ScalarLines(job_name) ==
    <<Line("BATCH_ACCOUNT_NAME", TRUE, "batchacct"),
      Line("BATCH_ACCOUNT_KEY", TRUE, "batchkey"),
      Line("BATCH_ACCOUNT_URL", TRUE, "https://batchacct"),
      Line("STORAGE_ACCOUNT_NAME", TRUE, "storeacct"),
      Line("STORAGE_ACCOUNT_KEY", TRUE, "storekey"),
      Line("JOB_NAME", TRUE, job_name),
      Line("COMMAND", TRUE, "run.sh"),
      Line("VM_IMAGE", TRUE, "image")>>

\* The lines a file goes on with: INPUT and OUTPUT options, VM_SIZE, options
\* that are not recognized, and an empty line.
TailLines ==
    {Line("INPUT", TRUE, "in/*.csv"),
     Line("INPUT", TRUE, "in/*.csv alt/*.csv remote/in"),
     Line("OUTPUT", TRUE, "out/*.json"),
     Line("OUTPUT", TRUE, "out/*.json log.txt"),
     Line("VM_SIZE", TRUE, "Standard_D2"),
     Line("FOO", TRUE, "1"),
     Line("BAR", TRUE, "1"),
     Line("", FALSE, "")}

InputLines ==
    {Line("INPUT", TRUE, "in/*.csv"),
     Line("INPUT", TRUE, "in/*.csv alt/*.csv remote/in")}

OutputLines ==
    {Line("OUTPUT", TRUE, "out/*.json"),
     Line("OUTPUT", TRUE, "out/*.json log.txt")}

\* The configuration files a run is started with: every scalar option, up to
\* MaxRequests INPUT lines and as many OUTPUT lines, and possibly a line
\* that is not recognized or an empty line at the end.
RunFiles ==
    {ScalarLines(jn) \o ins \o outs \o extra :
        jn \in JobNames,
        ins \in SeqsUpTo(InputLines, MaxRequests),
        outs \in SeqsUpTo(OutputLines, MaxRequests),
        extra \in {<<>>, <<Line("FOO", TRUE, "1")>>, <<Line("", FALSE, "")>>}}

\* The lines of s at the positions in keep, in order.
RECURSIVE Keep(_, _, _)
Keep(s, keep, i) ==
    IF i > Len(s)
    THEN <<>>
    ELSE IF i \in keep
    THEN <<s[i]>> \o Keep(s, keep, i + 1)
    ELSE Keep(s, keep, i + 1)

\* The selections of the scalar lines that leave out at most MaxMissing.
Selections ==
    LET all == 1..Len(ScalarLines("Job1")) IN
    {all \ out : out \in {o \in SUBSET all : Cardinality(o) <= MaxMissing}}

\* The configuration files the parser and the validation are checked on: a
\* selection of the scalar lines followed by up to MaxLines further lines in
\* any order.
ConfigFiles ==
    {Keep(ScalarLines(jn), keep, 1) \o tail :
        jn \in JobNames,
        keep \in Selections,
        tail \in SeqsUpTo(TailLines, MaxLines)}

(***************************************************************************)
(* Names and calls.                                                        *)
(***************************************************************************)
NoError == [at |-> "", type |-> ""]

Raised(at, type) == [at |-> at, type |-> type]

\* self.job_name
JobName == azurebatch.job_name[1]

\* self.job_name.lower() + '-input'
InputContainerName == <<Lower(JobName), "-input">>

\* self.job_name.lower() + '-output'
OutputContainerName == <<Lower(JobName), "-output">>

\* input_container of delete_input_container, which derives the name again.
input_containerNoLower == <<JobName, "-input">>

input_container == <<Lower(JobName), "-input">>

\* One call to the object store or the batch service, and whether it succeeded.
Call(op, target, ok) == [op |-> op, target |-> target, ok |-> ok]

\* f with x mapped to v.
Put(f, x, v) == [y \in DOMAIN f \cup {x} |-> IF y = x THEN v ELSE f[y]]

\* f without x.
Drop(f, x) == [y \in DOMAIN f \ {x} |-> f[y]]

EmptyMap == [y \in {} |-> {}]

(***************************************************************************)
(* AzureBatch.upload_input_to_blob_storage                                 *)
(***************************************************************************)
\* The files of glob.glob(pattern), each with its destination directory
\* ("" stands for destination_dir=False).
RECURSIVE WithDestination(_, _, _)
WithDestination(files, destination_dir, i) ==
    IF i > Len(files)
    THEN <<>>
    ELSE <<[file |-> files[i], destination_dir |-> destination_dir]>>
         \o WithDestination(files, destination_dir, i + 1)

\* The loop over things_to_upload from thing i on.
RECURSIVE ThingsFiles(_, _, _)
ThingsFiles(things, destination_dir, i) ==
    IF i > Len(things)
    THEN <<>>
    ELSE WithDestination(Glob(things[i]), destination_dir, 1)
         \o ThingsFiles(things, destination_dir, i + 1)

\* The files one input_request stages, in order.
RequestFiles(input_request) ==
    LET things == Split(input_request) IN
    IF Len(things) = 1
    THEN WithDestination(Glob(things[1]), "", 1)
    ELSE IF Len(things) > 1
    THEN ThingsFiles(Front(things), Last(things), 1)
    ELSE <<>>

\* The loop over self.input from request i on.
RECURSIVE StagedFiles(_, _)
StagedFiles(input, i) ==
    IF i > Len(input)
    THEN <<>>
    ELSE RequestFiles(input[i]) \o StagedFiles(input, i + 1)

\* self.input after the loop over it: input_request.split() makes a new list
\* for every request, and pop() shortens that list only.
InputAfterStagingConsumed(input) == <<>>

InputAfterStaging(input) == input

\* blob_name of _create_resource_file.
BlobName(file_to_upload) == Last(file_to_upload)

\* The ResourceFile _create_resource_file returns.
ResourceFileAtRoot(staged, input_container_name) ==
    [file_path |-> <<Last(staged.file)>>,
     blob_source |->
        [container |-> input_container_name, blob |-> Last(staged.file)]]

ResourceFile(staged, input_container_name) ==
    [file_path |->
        IF staged.destination_dir # ""
        THEN PathOf(staged.destination_dir) \o <<Last(staged.file)>>
        ELSE <<Last(staged.file)>>,
     blob_source |->
        [container |-> input_container_name, blob |-> BlobName(staged.file)]]

\* The blobs of the input container after the first n staged files are
\* uploaded: create_blob_from_path overwrites a blob of the same name.
RECURSIVE UploadedBlobs(_, _)
UploadedBlobs(staged, n) ==
    IF n = 0
    THEN EmptyMap
    ELSE Put(UploadedBlobs(staged, n - 1), BlobName(staged[n].file), staged[n].file)

\* The calls of the first n uploads, the last one with the outcome ok.
RECURSIVE UploadCalls(_, _, _, _)
UploadCalls(staged, name, n, ok) ==
    IF n = 0
    THEN <<>>
    ELSE UploadCalls(staged, name, n - 1, TRUE)
         \o <<Call("create_blob_from_path", name \o <<BlobName(staged[n].file)>>, ok)>>

RECURSIVE ResourceFiles(_, _, _)
ResourceFiles(staged, name, i) ==
    IF i > Len(staged)
    THEN <<>>
    ELSE <<ResourceFile(staged[i], name)>> \o ResourceFiles(staged, name, i + 1)

(***************************************************************************)
(* AzureBatch.prepare_output_resource_files                                *)
(***************************************************************************)
\* The OutputFile of one output_item: its path is os.path.split(item)[0].
OutputFile(output_item, sas_url) ==
    [file_pattern |-> output_item,
     container_url |-> sas_url,
     path |-> Some(SplitHead(output_item)),
     upload_condition |-> "task_success"]

\* The OutputFile added for the stdout and stderr logs: no path is given.
StdOutputFile(sas_url) ==
    [file_pattern |-> "std*.txt",
     container_url |-> sas_url,
     path |-> None,
     upload_condition |-> "task_success"]

\* The loop over output_request.split() from item i on.
RECURSIVE ItemOutputFiles(_, _, _)
ItemOutputFiles(items, sas_url, i) ==
    IF i > Len(items)
    THEN <<>>
    ELSE <<OutputFile(items[i], sas_url)>> \o ItemOutputFiles(items, sas_url, i + 1)

\* The loop over self.output from request i on.
RECURSIVE RequestOutputFiles(_, _, _)
RequestOutputFiles(output, sas_url, i) ==
    IF i > Len(output)
    THEN <<>>
    ELSE ItemOutputFiles(Split(output[i]), sas_url, 1)
         \o RequestOutputFiles(output, sas_url, i + 1)

prepare_output_resource_filesStdFirst(output, sas_url) ==
    <<StdOutputFile(sas_url)>> \o RequestOutputFiles(output, sas_url, 1)

prepare_output_resource_files(output, sas_url) ==
    Append(RequestOutputFiles(output, sas_url, 1), StdOutputFile(sas_url))

(***************************************************************************)
(* The task on its node.                                                   *)
(***************************************************************************)
\* The files of the node's working directory that a pattern matches.
Matches(file_pattern) ==
    CASE file_pattern = "out/*.json" -> {"x.json"}
      [] file_pattern = "log.txt" -> {"log.txt"}
      [] file_pattern = "std*.txt" -> {"stdout.txt"}
      [] OTHER -> {}

\* The blobs one OutputFile can put into its container: the matched file
\* under the destination path.
BlobsAt(output_file) ==
    LET dir == IF output_file.path = None THEN <<>> ELSE PathOf(output_file.path[1])
    IN  {dir \o <<f>> : f \in Matches(output_file.file_pattern)}

TaskBlobs(output_files) ==
    UNION {BlobsAt(output_files[i]) : i \in DOMAIN output_files}

\* The blob names of the model in the order list_blobs yields them.
BlobOrder == <<<<"log.txt">>, <<"out", "x.json">>, <<"stdout.txt">>>>

\* blob_service.list_blobs(container_name) of a container with these blobs.
ListBlobs(blobs) ==
    LET In(b) == b \in DOMAIN blobs IN SelectSeq(BlobOrder, In)

(***************************************************************************)
(* download_container                                                      *)
(***************************************************************************)
\* A local path as the file system resolves it from the working directory.
Resolve(path) ==
    LET NotDot(c) == c # "." IN SelectSeq(path, NotDot)

\* os.makedirs(dir): the directory and every missing parent.
MakeDirs(dirs, dir) ==
    dirs \cup {SubSeq(dir, 1, k) : k \in 1..Len(dir)}

\* The local path get_blob_to_path writes a blob to.
BlobTargetFlat(blob_name, output_dir) == <<Last(blob_name)>>

BlobTarget(blob_name, output_dir) ==
    IF Len(blob_name) > 1
    THEN PathOf(output_dir) \o Front(blob_name) \o <<Last(blob_name)>>
    ELSE blob_name

\* The local directories after the loop body up to its get_blob_to_path call
\* has run for the first n blobs.
RECURSIVE DownloadDirs(_, _, _, _)
DownloadDirs(blob_names, output_dir, dirs, n) ==
    IF n = 0
    THEN dirs
    ELSE LET before == DownloadDirs(blob_names, output_dir, dirs, n - 1)
             dir == Resolve(PathOf(output_dir) \o Front(blob_names[n]))
         IN  IF Len(blob_names[n]) > 1 /\ dir \notin before
             THEN MakeDirs(before, dir)
             ELSE before

\* The local files written once the first n blobs are downloaded.
DownloadFiles(blob_names, output_dir, n) ==
    {Resolve(BlobTarget(blob_names[i], output_dir)) : i \in 1..n}

\* The calls of the first n downloads, the last one with the outcome ok.
RECURSIVE DownloadCalls(_, _, _, _)
DownloadCalls(blob_names, name, n, ok) ==
    IF n = 0
    THEN <<>>
    ELSE DownloadCalls(blob_names, name, n - 1, TRUE)
         \o <<Call("get_blob_to_path", name \o blob_names[n], ok)>>

(***************************************************************************)
(* AzureBatch.wait_for_tasks_to_complete                                   *)
(***************************************************************************)
\* The for loop over the listed tasks from task i on, flag being
\* all_tasks_completed before it.
RECURSIVE TasksLoopLastOnly(_, _, _)
TasksLoopLastOnly(listed, i, flag) ==
    IF i > Len(listed)
    THEN flag
    ELSE TasksLoopLastOnly(listed, i + 1, listed[i].state = "completed")

RECURSIVE TasksLoopSuccessOnly(_, _, _)
TasksLoopSuccessOnly(listed, i, flag) ==
    IF i > Len(listed)
    THEN flag
    ELSE TasksLoopSuccessOnly(listed, i + 1,
             IF listed[i].state # "completed" \/ listed[i].result # "success"
             THEN FALSE
             ELSE flag)

RECURSIVE TasksLoop(_, _, _)
TasksLoop(listed, i, flag) ==
    IF i > Len(listed)
    THEN flag
    ELSE TasksLoop(listed, i + 1,
             IF listed[i].state # "completed" THEN FALSE ELSE flag)

(***************************************************************************)
(* __main__                                                                *)
(***************************************************************************)
Init ==
    /\ pc = "parse"
    /\ download_output_files \in BOOLEAN
    /\ config_options = <<>>
    /\ azurebatch = NewAzureBatch
    /\ error = NoError
    /\ error_options = <<>>
    /\ resource_files = <<>>
    /\ containers = EmptyMap
    /\ pools = {}
    /\ jobs = {}
    /\ tasks = <<>>
    /\ tasks_listed = <<>>
    /\ all_tasks_completed = FALSE
    /\ local_dirs \in {{}, {<<"out">>}}
    /\ local_files = {}
    /\ written = {}
    /\ output_directory = "."
    /\ calls = <<>>

\* The statement of __main__ that follows a step that returned.
AfterDownloadFirst(step, download) ==
    CASE step = "parse" -> "check"
      [] step = "check" -> "upload"
      [] step = "upload" -> "create_pool"
      [] step = "create_pool" -> "create_job"
      [] step = "create_job" -> "create_task"
      [] step = "create_task" -> "wait"
      [] step = "wait" -> IF download THEN "download_output" ELSE "delete_job"
      [] step = "download_output" -> "delete_job"
      [] step = "delete_job" -> "delete_pool"
      [] step = "delete_pool" -> "delete_input"
      [] step = "delete_input" -> "done"

AfterAlwaysDownload(step, download) ==
    CASE step = "parse" -> "check"
      [] step = "check" -> "upload"
      [] step = "upload" -> "create_pool"
      [] step = "create_pool" -> "create_job"
      [] step = "create_job" -> "create_task"
      [] step = "create_task" -> "wait"
      [] step = "wait" -> "delete_job"
      [] step = "delete_job" -> "delete_pool"
      [] step = "delete_pool" -> "download_output"
      [] step = "download_output" -> "delete_input"
      [] step = "delete_input" -> "done"

AfterNoWait(step, download) ==
    CASE step = "parse" -> "check"
      [] step = "check" -> "upload"
      [] step = "upload" -> "create_pool"
      [] step = "create_pool" -> "create_job"
      [] step = "create_job" -> "create_task"
      [] step = "create_task" -> "delete_job"
      [] step = "wait" -> "delete_job"
      [] step = "delete_job" -> "delete_pool"
      [] step = "delete_pool" -> IF download THEN "download_output" ELSE "delete_input"
      [] step = "download_output" -> "delete_input"
      [] step = "delete_input" -> "done"

After(step, download) ==
    CASE step = "parse" -> "check"
      [] step = "check" -> "upload"
      [] step = "upload" -> "create_pool"
      [] step = "create_pool" -> "create_job"
      [] step = "create_job" -> "create_task"
      [] step = "create_task" -> "wait"
      [] step = "wait" -> "delete_job"
      [] step = "delete_job" -> "delete_pool"
      [] step = "delete_pool" -> IF download THEN "download_output" ELSE "delete_input"
      [] step = "download_output" -> "delete_input"
      [] step = "delete_input" -> "done"

\* An exception leaves __main__ at step `at`: nothing after it runs.
FailGoesOn(at, type) ==
    /\ pc' = IF at \in {"parse", "check"}
             THEN "failed"
             ELSE After(at, download_output_files)
    /\ error' = Raised(at, type)

Fail(at, type) ==
    /\ pc' = "failed"
    /\ error' = Raised(at, type)

\* azurebatch = parse_configuration_file(args.configuration_file), the file
\* being one of files.
ParseFrom(files) ==
    /\ pc = "parse"
    /\ \E file \in files :
          LET r == parse_configuration_file(file) IN
          /\ config_options' = file
          /\ IF r.error # ""
             THEN /\ Fail("parse", r.error)
                  /\ error_options' = r.unrecognized_options
                  /\ UNCHANGED azurebatch
             ELSE /\ pc' = After("parse", download_output_files)
                  /\ azurebatch' = r.azurebatch
                  /\ UNCHANGED <<error, error_options>>
    /\ UNCHANGED <<output_directory,
                   written, download_output_files, resource_files, containers, pools,
                   jobs, tasks, tasks_listed, all_tasks_completed, local_dirs,
                   local_files, calls>>

Parse == ParseFrom(RunFiles)

ParseAny == ParseFrom(ConfigFiles)

\* check_no_attributes_none(azurebatch)
Check ==
    /\ pc = "check"
    /\ LET missing_attributes == MissingAttributes(azurebatch) IN
       IF Len(missing_attributes) > 0
       THEN /\ Fail("check", "AttributeError")
            /\ error_options' = missing_attributes
       ELSE /\ pc' = After("check", download_output_files)
            /\ UNCHANGED <<error, error_options>>
    /\ UNCHANGED <<output_directory,
                   written, download_output_files, config_options, azurebatch,
                   resource_files, containers, pools, jobs, tasks, tasks_listed,
                   all_tasks_completed, local_dirs, local_files, calls>>

\* resource_files = azurebatch.upload_input_to_blob_storage(): create_container
\* fails (n = 0), the n-th upload fails, or every call succeeds.
Upload ==
    /\ pc = "upload"
    /\ LET name == InputContainerName
           staged == StagedFiles(azurebatch.input, 1)
       IN  \E n \in 0..(Len(staged) + 1) :
              IF n = 0
              THEN /\ calls' = Append(calls, Call("create_container", name, FALSE))
                   /\ Fail("upload", "StagingError")
                   /\ UNCHANGED <<containers, resource_files>>
              ELSE IF n <= Len(staged)
              THEN /\ calls' = Append(calls, Call("create_container", name, TRUE))
                                \o UploadCalls(staged, name, n, FALSE)
                   /\ containers' = Put(containers, name, UploadedBlobs(staged, n - 1))
                   /\ Fail("upload", "StagingError")
                   /\ UNCHANGED resource_files
              ELSE /\ calls' = Append(calls, Call("create_container", name, TRUE))
                                \o UploadCalls(staged, name, Len(staged), TRUE)
                   /\ containers' = Put(containers, name,
                                        UploadedBlobs(staged, Len(staged)))
                   /\ resource_files' = ResourceFiles(staged, name, 1)
                   /\ pc' = After("upload", download_output_files)
                   /\ UNCHANGED error
    /\ azurebatch' = [azurebatch EXCEPT !.input = InputAfterStaging(@)]
    /\ UNCHANGED <<output_directory,
                   written, download_output_files, config_options,
                   error_options, pools, jobs, tasks, tasks_listed,
                   all_tasks_completed, local_dirs, local_files>>

\* azurebatch.create_pool()
CreatePool ==
    /\ pc = "create_pool"
    /\ \E ok \in BOOLEAN :
          /\ calls' = Append(calls, Call("pool.add", <<JobName>>, ok))
          /\ IF ok
             THEN /\ pools' = pools \cup {JobName}
                  /\ pc' = After("create_pool", download_output_files)
                  /\ UNCHANGED error
             ELSE /\ Fail("create_pool", "ProvisionError")
                  /\ UNCHANGED pools
    /\ UNCHANGED <<output_directory,
                   written, download_output_files, config_options, azurebatch,
                   error_options, resource_files, containers, jobs, tasks,
                   tasks_listed, all_tasks_completed, local_dirs, local_files>>

\* azurebatch.create_job()
CreateJob ==
    /\ pc = "create_job"
    /\ \E ok \in BOOLEAN :
          /\ calls' = Append(calls, Call("job.add", <<JobName>>, ok))
          /\ IF ok
             THEN /\ jobs' = jobs \cup {JobName}
                  /\ pc' = After("create_job", download_output_files)
                  /\ UNCHANGED error
             ELSE /\ Fail("create_job", "ProvisionError")
                  /\ UNCHANGED jobs
    /\ UNCHANGED <<output_directory,
                   written, download_output_files, config_options, azurebatch,
                   error_options, resource_files, containers, pools, tasks,
                   tasks_listed, all_tasks_completed, local_dirs, local_files>>

\* The calls create_task makes when create_container succeeds, task.add
\* having the outcome ok.
CreateTaskCallsTaskFirst(output_container_name, job_name, ok) ==
    <<Call("task.add", <<job_name>>, ok),
      Call("create_container", output_container_name, TRUE)>>

CreateTaskCalls(output_container_name, job_name, ok) ==
    <<Call("create_container", output_container_name, TRUE),
      Call("task.add", <<job_name>>, ok)>>

\* The TaskAddParameter of create_task, as the service holds it: the task
\* starts active and has no result yet.
NewTask(command, input_files, output_files) ==
    [id |-> "Task1",
     command_line |-> <<"/bin/bash -c", command>>,
     resource_files |-> input_files,
     output_files |-> output_files,
     state |-> "active",
     result |-> "none"]

\* azurebatch.create_task(input_files=resource_files): create_container fails
\* (n = 0), task.add fails (n = 1) or both calls succeed. input_files is the
\* caller's list, and the append is made to it.
CreateTask ==
    /\ pc = "create_task"
    /\ LET output_container_name == OutputContainerName
           sas_url == [container |-> output_container_name, permission |-> "WRITE"]
           output_files == prepare_output_resource_files(azurebatch.output, sas_url)
           confindr_database ==
               [file_path |-> <<"confindr.tar.gz">>,
                blob_source |-> [container |-> <<"carlingst01", "databases">>,
                                 blob |-> "confindr.tar.gz"]]
           input_files == Append(resource_files, confindr_database)
           task == NewTask(azurebatch.command[1], input_files, output_files)
       IN  \E n \in 0..2 :
              IF n = 0
              THEN /\ calls' = Append(calls,
                                  Call("create_container", output_container_name, FALSE))
                   /\ Fail("create_task", "StagingError")
                   /\ UNCHANGED <<containers, resource_files, tasks>>
              ELSE /\ containers' =
                         IF output_container_name \in DOMAIN containers
                         THEN containers
                         ELSE Put(containers, output_container_name, EmptyMap)
                   /\ resource_files' = input_files
                   /\ calls' = calls
                         \o CreateTaskCalls(output_container_name, JobName, n = 2)
                   /\ IF n = 2
                      THEN /\ tasks' = Append(tasks, task)
                           /\ pc' = After("create_task", download_output_files)
                           /\ UNCHANGED error
                      ELSE /\ Fail("create_task", "ProvisionError")
                           /\ UNCHANGED tasks
    /\ UNCHANGED <<output_directory,
                   written, download_output_files, config_options, azurebatch,
                   error_options, pools, jobs, tasks_listed, all_tasks_completed,
                   local_dirs, local_files>>

\* The batch service runs a task of the job: it starts it, or the command
\* ends and the task is completed whatever its exit code; the output files
\* are uploaded only when the command succeeded.
TaskProgress ==
    /\ \E i \in DOMAIN tasks :
          \/ /\ tasks[i].state = "active"
             /\ tasks' = [tasks EXCEPT ![i].state = "running"]
             /\ UNCHANGED <<containers, written>>
          \/ /\ tasks[i].state = "running"
             /\ \E result \in {"success", "failure"} :
                   /\ tasks' = [tasks EXCEPT ![i].state = "completed",
                                             ![i].result = result]
                   /\ IF result = "success"
                      THEN \E blobs \in SUBSET TaskBlobs(tasks[i].output_files) :
                              LET name == OutputContainerName IN
                              IF name \in DOMAIN containers
                              THEN /\ containers' =
                                        Put(containers, name,
                                            [b \in DOMAIN containers[name] \cup blobs
                                                |-> "output"])
                                   /\ written' = written \cup blobs
                              ELSE UNCHANGED <<containers, written>>
                      ELSE UNCHANGED <<containers, written>>
    /\ UNCHANGED <<output_directory,
                   pc, download_output_files, config_options, azurebatch, error,
                   error_options, resource_files, pools, jobs, tasks_listed,
                   all_tasks_completed, local_dirs, local_files, calls>>

\* The rounds of the polling loop made so far.
Rounds ==
    LET IsList(c) == c.op = "task.list" IN Len(SelectSeq(calls, IsList))

\* One round of the while loop of wait_for_tasks_to_complete: list the tasks,
\* run the for loop, sleep, test the flag.
PollRound ==
    /\ pc = "wait"
    /\ Rounds < MaxRounds
    /\ \E ok \in BOOLEAN :
          /\ calls' = Append(calls, Call("task.list", <<JobName>>, ok))
          /\ IF ok
             THEN /\ tasks_listed' = tasks
                  /\ all_tasks_completed' = TasksLoop(tasks, 1, TRUE)
                  /\ pc' = IF all_tasks_completed'
                           THEN After("wait", download_output_files)
                           ELSE "wait"
                  /\ UNCHANGED error
             ELSE /\ Fail("wait", "BatchError")
                  /\ UNCHANGED <<tasks_listed, all_tasks_completed>>
    /\ UNCHANGED <<output_directory,
                   written, download_output_files, config_options, azurebatch,
                   error_options, resource_files, containers, pools, jobs, tasks,
                   local_dirs, local_files>>

\* What batch_client.job.delete and batch_client.pool.delete can answer: the
\* methods pass the id on and catch nothing, so the answer is the service's,
\* which deletes an existing job or pool and reports one that does not exist
\* as an error.
DeleteOutcomes(exists) ==
    IF exists THEN {"ok", "BatchError"} ELSE {"NotFound", "BatchError"}

\* azurebatch.delete_job(): the service deletes the job with its tasks.
DeleteJob ==
    /\ pc = "delete_job"
    /\ \E outcome \in DeleteOutcomes(JobName \in jobs) :
          /\ calls' = Append(calls, Call("job.delete", <<JobName>>, outcome = "ok"))
          /\ IF outcome = "ok"
             THEN /\ jobs' = jobs \ {JobName}
                  /\ tasks' = <<>>
                  /\ pc' = After("delete_job", download_output_files)
                  /\ UNCHANGED error
             ELSE /\ Fail("delete_job", outcome)
                  /\ UNCHANGED <<jobs, tasks>>
    /\ UNCHANGED <<output_directory,
                   written, download_output_files, config_options, azurebatch,
                   error_options, resource_files, containers, pools, tasks_listed,
                   all_tasks_completed, local_dirs, local_files>>

\* azurebatch.delete_pool(), then the test of args.download_output_files.
DeletePool ==
    /\ pc = "delete_pool"
    /\ \E outcome \in DeleteOutcomes(JobName \in pools) :
          /\ calls' = Append(calls, Call("pool.delete", <<JobName>>, outcome = "ok"))
          /\ IF outcome = "ok"
             THEN /\ pools' = pools \ {JobName}
                  /\ pc' = After("delete_pool", download_output_files)
                  /\ UNCHANGED error
             ELSE /\ Fail("delete_pool", outcome)
                  /\ UNCHANGED pools
    /\ UNCHANGED <<output_directory,
                   written, download_output_files, config_options, azurebatch,
                   error_options, resource_files, containers, jobs, tasks,
                   tasks_listed, all_tasks_completed, local_dirs, local_files>>

\* azurebatch.download_output_files_and_delete_container(): list_blobs fails
\* (n = 0), the n-th get_blob_to_path fails, delete_container fails
\* (n = number of blobs + 1) or every call succeeds.
DownloadOutput ==
    /\ pc = "download_output"
    /\ LET output_container == OutputContainerName
           blob_names == ListBlobs(containers[output_container])
           count == Len(blob_names)
       IN  \E n \in 0..(count + 2) :
              IF n = 0
              THEN /\ calls' = Append(calls, Call("list_blobs", output_container, FALSE))
                   /\ Fail("download_output", "StagingError")
                   /\ UNCHANGED <<containers, local_dirs, local_files>>
              ELSE IF n <= count
              THEN /\ calls' = Append(calls, Call("list_blobs", output_container, TRUE))
                                \o DownloadCalls(blob_names, output_container, n, FALSE)
                   /\ local_dirs' = DownloadDirs(blob_names, ".", local_dirs, n)
                   /\ local_files' = local_files
                                     \cup DownloadFiles(blob_names, ".", n - 1)
                   /\ Fail("download_output", "StagingError")
                   /\ UNCHANGED containers
              ELSE /\ calls' = Append(calls, Call("list_blobs", output_container, TRUE))
                                \o DownloadCalls(blob_names, output_container, count, TRUE)
                                \o <<Call("delete_container", output_container,
                                          n = count + 2)>>
                   /\ local_dirs' = DownloadDirs(blob_names, ".", local_dirs, count)
                   /\ local_files' = local_files
                                     \cup DownloadFiles(blob_names, ".", count)
                   /\ IF n = count + 2
                      THEN /\ containers' = Drop(containers, output_container)
                           /\ pc' = After("download_output", download_output_files)
                           /\ UNCHANGED error
                      ELSE /\ Fail("download_output", "StagingError")
                           /\ UNCHANGED containers
    /\ UNCHANGED <<output_directory,
                   written, download_output_files, config_options, azurebatch,
                   error_options, resource_files, pools, jobs, tasks, tasks_listed,
                   all_tasks_completed>>

\* azurebatch.delete_input_container()
DeleteInput ==
    /\ pc = "delete_input"
    /\ \E ok \in BOOLEAN :
          /\ calls' = Append(calls, Call("delete_container", input_container, ok))
          /\ IF ok
             THEN /\ containers' = Drop(containers, input_container)
                  /\ pc' = After("delete_input", download_output_files)
                  /\ UNCHANGED error
             ELSE /\ Fail("delete_input", "StagingError")
                  /\ UNCHANGED containers
    /\ UNCHANGED <<output_directory,
                   written, download_output_files, config_options, azurebatch,
                   error_options, resource_files, pools, jobs, tasks, tasks_listed,
                   all_tasks_completed, local_dirs, local_files>>

Next ==
    \/ Parse
    \/ Check
    \/ Upload
    \/ CreatePool
    \/ CreateJob
    \/ CreateTask
    \/ TaskProgress
    \/ PollRound
    \/ DeleteJob
    \/ DeletePool
    \/ DownloadOutput
    \/ DeleteInput

Spec == Init /\ [][Next]_vars

\* Parsing and validation alone, over ConfigFiles.
NextConfig ==
    \/ ParseAny
    \/ Check

SpecConfig == Init /\ [][NextConfig]_vars

(***************************************************************************)
(* wait_for_tasks_to_complete on a job of several tasks: the method is     *)
(* called with the job, its pool and the containers in place, and the job  *)
(* holds up to MaxTasks tasks in any states.                               *)
(***************************************************************************)
PollConfigFile ==
    ScalarLines("Job1")
    \o <<Line("INPUT", TRUE, "in/*.csv"), Line("OUTPUT", TRUE, "out/*.json")>>

PollJobSpec == parse_configuration_file(PollConfigFile).azurebatch

\* The states the service reports a task in, with the result it then has.
TaskStates ==
    {<<"active", "none">>, <<"running", "none">>,
     <<"completed", "success">>, <<"completed", "failure">>}

PollTask(st) ==
    [NewTask(PollJobSpec.command[1], <<>>,
             prepare_output_resource_files(PollJobSpec.output,
                 [container |-> <<"job1", "-output">>, permission |-> "WRITE"]))
        EXCEPT !.state = st[1], !.result = st[2]]

InitPoll ==
    /\ pc = "wait"
    /\ download_output_files \in BOOLEAN
    /\ config_options = PollConfigFile
    /\ azurebatch = PollJobSpec
    /\ error = NoError
    /\ error_options = <<>>
    /\ resource_files = <<>>
    /\ containers = Put(Put(EmptyMap, <<"job1", "-input">>, EmptyMap),
                        <<"job1", "-output">>, EmptyMap)
    /\ pools = {"Job1"}
    /\ jobs = {"Job1"}
    /\ \E sts \in SeqsUpTo(TaskStates, MaxTasks) :
          tasks = [i \in DOMAIN sts |-> PollTask(sts[i])]
    /\ tasks_listed = <<>>
    /\ all_tasks_completed = FALSE
    /\ local_dirs = {}
    /\ local_files = {}
    /\ written = {}
    /\ output_directory = "."
    /\ calls = <<>>

NextPoll ==
    \/ TaskProgress
    \/ PollRound

SpecPoll == InitPoll /\ [][NextPoll]_vars

\* The polling loop keeps running: while the method is in its loop, another
\* round is made after the sleep.
SpecPollFair == InitPoll /\ [][NextPoll]_vars /\ WF_vars(PollRound)

(***************************************************************************)
(* download_container called by itself: on a container holding any of the  *)
(* blobs of the model, with any of OutputDirs as output_dir, in a working  *)
(* directory where any of the directories involved may exist already.      *)
(***************************************************************************)
OutputDirs == {".", "results"}

DownloadLocalDirs ==
    {dirs \in SUBSET {<<"out">>, <<"results">>, <<"results", "out">>} :
        <<"results", "out">> \in dirs => <<"results">> \in dirs}

\* download_container(blob_service, container_name, output_dir): list_blobs
\* fails (n = 0), the n-th get_blob_to_path fails or every call succeeds.
DownloadContainer ==
    /\ pc = "download_container"
    /\ LET container_name == OutputContainerName
           blob_names == ListBlobs(containers[container_name])
           count == Len(blob_names)
       IN  \E n \in 0..(count + 1) :
              IF n = 0
              THEN /\ calls' = Append(calls, Call("list_blobs", container_name, FALSE))
                   /\ Fail("download_container", "StagingError")
                   /\ UNCHANGED <<local_dirs, local_files>>
              ELSE IF n <= count
              THEN /\ calls' = Append(calls, Call("list_blobs", container_name, TRUE))
                                \o DownloadCalls(blob_names, container_name, n, FALSE)
                   /\ local_dirs' = DownloadDirs(blob_names, output_directory,
                                                 local_dirs, n)
                   /\ local_files' = local_files
                         \cup DownloadFiles(blob_names, output_directory, n - 1)
                   /\ Fail("download_container", "StagingError")
              ELSE /\ calls' = Append(calls, Call("list_blobs", container_name, TRUE))
                                \o DownloadCalls(blob_names, container_name, count, TRUE)
                   /\ local_dirs' = DownloadDirs(blob_names, output_directory,
                                                 local_dirs, count)
                   /\ local_files' = local_files
                         \cup DownloadFiles(blob_names, output_directory, count)
                   /\ pc' = "downloaded"
                   /\ UNCHANGED error
    /\ UNCHANGED <<output_directory, written, download_output_files,
                   config_options, azurebatch, error_options, resource_files,
                   containers, pools, jobs, tasks, tasks_listed,
                   all_tasks_completed>>

InitDownload ==
    /\ pc = "download_container"
    /\ download_output_files = TRUE
    /\ config_options = PollConfigFile
    /\ azurebatch = PollJobSpec
    /\ error = NoError
    /\ error_options = <<>>
    /\ resource_files = <<>>
    /\ \E blobs \in SUBSET {BlobOrder[i] : i \in DOMAIN BlobOrder} :
          containers = Put(EmptyMap, <<"job1", "-output">>,
                           [b \in blobs |-> "output"])
    /\ pools = {}
    /\ jobs = {}
    /\ tasks = <<>>
    /\ tasks_listed = <<>>
    /\ all_tasks_completed = FALSE
    /\ local_dirs \in DownloadLocalDirs
    /\ local_files = {}
    /\ written = {}
    /\ output_directory \in OutputDirs
    /\ calls = <<>>

NextDownload == DownloadContainer

SpecDownload == InitDownload /\ [][NextDownload]_vars

(***************************************************************************)
(* The teardown methods called again: the caller enters the teardown       *)
(* statements of __main__ (delete_job, delete_pool, delete_input_container)*)
(* at any of them, any number of times up to MaxCalls calls, on a service   *)
(* where the job, the pool and the containers may or may not exist.        *)
(***************************************************************************)
TeardownSteps == {"delete_job", "delete_pool", "delete_input"}

\* The caller enters the teardown statements at one of the three methods.
CallTeardown ==
    /\ pc \notin TeardownSteps
    /\ Len(calls) < MaxCalls
    /\ pc' \in TeardownSteps
    /\ error' = NoError
    /\ UNCHANGED <<output_directory, written, download_output_files,
                   config_options, azurebatch, error_options, resource_files,
                   containers, pools, jobs, tasks, tasks_listed,
                   all_tasks_completed, local_dirs, local_files, calls>>

InitTeardown ==
    /\ pc = "returned"
    /\ download_output_files = FALSE
    /\ config_options = PollConfigFile
    /\ azurebatch = PollJobSpec
    /\ error = NoError
    /\ error_options = <<>>
    /\ resource_files = <<>>
    /\ \E names \in SUBSET {<<"job1", "-input">>, <<"job1", "-output">>} :
          containers = [name \in names |-> EmptyMap]
    /\ pools \in SUBSET {"Job1"}
    /\ jobs \in SUBSET {"Job1"}
    /\ tasks = <<>>
    /\ tasks_listed = <<>>
    /\ all_tasks_completed = FALSE
    /\ local_dirs = {}
    /\ local_files = {}
    /\ written = {}
    /\ output_directory = "."
    /\ calls = <<>>

NextTeardown ==
    \/ CallTeardown
    \/ DeleteJob
    \/ DeletePool
    \/ DeleteInput

SpecTeardown == InitTeardown /\ [][NextTeardown]_vars

(***************************************************************************)
(* Vocabulary of the properties.                                           *)
(***************************************************************************)
\* The run has ended: __main__ returned or an exception left it.
Ended == pc \in {"done", "failed"}

IsInputCreate(c) == c.op = "create_container" /\ Last(c.target) = "-input"

IsOutputCreate(c) == c.op = "create_container" /\ Last(c.target) = "-output"

IsBlobUpload(c) == c.op = "create_blob_from_path"

IsPoolAdd(c) == c.op = "pool.add"

IsJobAdd(c) == c.op = "job.add"

IsTaskAdd(c) == c.op = "task.add"

IsTaskList(c) == c.op = "task.list"

IsJobDelete(c) == c.op = "job.delete"

IsPoolDelete(c) == c.op = "pool.delete"

IsDownload(c) == c.op \in {"list_blobs", "get_blob_to_path"}

IsOutputDelete(c) == c.op = "delete_container" /\ Last(c.target) = "-output"

IsInputDelete(c) == c.op = "delete_container" /\ Last(c.target) = "-input"

IsDeletion(c) == c.op \in {"job.delete", "pool.delete", "delete_container"}

IsTeardown(c) == IsDeletion(c) \/ IsDownload(c)

\* Some call of kind A was made.
Happened(A(_)) == \E i \in DOMAIN calls : A(calls[i])

\* Some call of kind A was made and succeeded.
Succeeded(A(_)) == \E i \in DOMAIN calls : A(calls[i]) /\ calls[i].ok

\* Every call of kind A was made before every call of kind B.
Precedes(A(_), B(_)) ==
    \A j \in DOMAIN calls :
        B(calls[j]) => \A i \in j..Len(calls) : ~A(calls[i])

\* Every call of kind B was made after a successful call of kind A.
Requires(A(_), B(_)) ==
    \A j \in DOMAIN calls :
        B(calls[j]) => \E i \in 1..(j - 1) : A(calls[i]) /\ calls[i].ok

(***************************************************************************)
(* Properties of the lifecycle.                                            *)
(***************************************************************************)
\* C1: whatever step a run fails at, no remote resource the run created
\* (input container, output container, pool, job) exists when the run ends.
C1_NothingLeftWhenRunEnds ==
    Ended => containers = EmptyMap /\ pools = {} /\ jobs = {}

\* C2: teardown is best-effort: when a deletion of the teardown fails (the
\* job's in particular), the deletions of the job, the pool, the output
\* container and the input container have all been attempted when the run
\* ends.
C2_TeardownGoesOnAfterFailure ==
    (Ended /\ \E i \in DOMAIN calls : IsDeletion(calls[i]) /\ ~calls[i].ok)
        => /\ Happened(IsJobDelete)
           /\ Happened(IsPoolDelete)
           /\ Happened(IsOutputDelete)
           /\ Happened(IsInputDelete)

\* C3 as stated: started with the flag that skips the download, a successful
\* run downloads no output blob and has deleted the output container.
C3_SkippedDownloadStillDeletes ==
    (pc = "done" /\ ~download_output_files)
        => /\ local_files = {}
           /\ OutputContainerName \notin DOMAIN containers

\* C3 as amended: started with the flag that skips the download, a successful
\* run downloads no output blob and does not delete the output container,
\* which still exists with the blobs the task wrote.
C3_SkippedDownloadKeepsContainer ==
    (pc = "done" /\ ~download_output_files)
        => /\ local_files = {}
           /\ ~Happened(IsDownload)
           /\ ~Happened(IsOutputDelete)
           /\ OutputContainerName \in DOMAIN containers
           /\ DOMAIN containers[OutputContainerName] = written

C3_Witness ==
    /\ pc = "done"
    /\ ~download_output_files
    /\ written # {}
    /\ DOMAIN containers[OutputContainerName] = written

\* C4 as stated: the teardown calls are made in the order download, delete
\* job, delete pool, delete output container, delete input container.
C4_DownloadThenJobPoolContainers ==
    /\ Precedes(IsDownload, IsJobDelete)
    /\ Precedes(IsJobDelete, IsPoolDelete)
    /\ Precedes(IsPoolDelete, IsOutputDelete)
    /\ Precedes(IsOutputDelete, IsInputDelete)

\* C4 as amended: the teardown calls are made in the order delete job, delete
\* pool, then (only when the download is requested) download the output
\* container and delete it, then delete the input container; a run that
\* returns has made all of them.
C4_JobPoolThenDownloadContainers ==
    /\ Precedes(IsJobDelete, IsPoolDelete)
    /\ Precedes(IsPoolDelete, IsDownload)
    /\ Precedes(IsDownload, IsOutputDelete)
    /\ Precedes(IsPoolDelete, IsOutputDelete)
    /\ Precedes(IsOutputDelete, IsInputDelete)
    /\ Precedes(IsPoolDelete, IsInputDelete)
    /\ (Happened(IsDownload) \/ Happened(IsOutputDelete)) => download_output_files
    /\ pc = "done" =>
          /\ Succeeded(IsJobDelete)
          /\ Succeeded(IsPoolDelete)
          /\ Succeeded(IsInputDelete)
          /\ download_output_files => Succeeded(IsDownload) /\ Succeeded(IsOutputDelete)

C4_Witness ==
    /\ pc = "done"
    /\ download_output_files
    /\ \E i \in DOMAIN calls : calls[i].op = "get_blob_to_path"

\* C5 as stated: the creation calls are made in the order input container,
\* pool, job, task, output container.
C5_OutputContainerAfterTask ==
    /\ Precedes(IsInputCreate, IsPoolAdd)
    /\ Precedes(IsPoolAdd, IsJobAdd)
    /\ Precedes(IsJobAdd, IsTaskAdd)
    /\ Precedes(IsTaskAdd, IsOutputCreate)

\* C5 as amended: the creation calls are made in the order input container,
\* pool, job, output container, task, each after the one before it
\* succeeded: the task is added only after the output container is created.
C5_OutputContainerBeforeTask ==
    /\ Precedes(IsInputCreate, IsPoolAdd)
    /\ Precedes(IsPoolAdd, IsJobAdd)
    /\ Precedes(IsJobAdd, IsOutputCreate)
    /\ Precedes(IsOutputCreate, IsTaskAdd)
    /\ Requires(IsInputCreate, IsPoolAdd)
    /\ Requires(IsPoolAdd, IsJobAdd)
    /\ Requires(IsJobAdd, IsOutputCreate)
    /\ Requires(IsOutputCreate, IsTaskAdd)

C5_Witness ==
    /\ Succeeded(IsTaskAdd)
    /\ Len(tasks) = 1
    /\ OutputContainerName \in DOMAIN containers

\* C6: every upload is made, and has succeeded, before the first of pool, job
\* and task creation; the task is added only when the pool and the job
\* exist; no teardown call is made before the poller returned with every
\* listed task completed.
C6_OrderingGuarantees ==
    /\ Precedes(IsInputCreate, IsPoolAdd) /\ Precedes(IsBlobUpload, IsPoolAdd)
    /\ Precedes(IsBlobUpload, IsJobAdd) /\ Precedes(IsBlobUpload, IsTaskAdd)
    /\ Happened(IsPoolAdd) =>
          /\ \A i \in DOMAIN calls :
                IsInputCreate(calls[i]) \/ IsBlobUpload(calls[i]) => calls[i].ok
          /\ LET staged == StagedFiles(azurebatch.input, 1)
                 uploads == SelectSeq(calls, IsBlobUpload)
             IN  /\ Len(uploads) = Len(staged)
                 /\ \A k \in DOMAIN staged :
                        Last(uploads[k].target) = Last(staged[k].file)
    /\ Requires(IsPoolAdd, IsTaskAdd) /\ Requires(IsJobAdd, IsTaskAdd)
    /\ Precedes(IsTaskAdd, IsJobDelete) /\ Precedes(IsTaskAdd, IsPoolDelete)
    /\ tasks # <<>> => JobName \in pools /\ JobName \in jobs
    /\ Happened(IsTeardown) =>
          /\ all_tasks_completed
          /\ Succeeded(IsTaskList)
          /\ Precedes(IsTaskList, IsTeardown)
          /\ \A i \in DOMAIN tasks_listed : tasks_listed[i].state = "completed"

C6_Witness ==
    /\ pc = "done"
    /\ Len(StagedFiles(azurebatch.input, 1)) > 1
    /\ Happened(IsDownload)

\* C7: after a run with one task and the download enabled has returned, the
\* local directory holds, under its name, every blob the task wrote to the
\* output container, no container exists any more and no pool or job is left.
C7_EndToEnd ==
    (pc = "done" /\ download_output_files)
        => /\ \A b \in written :
                 /\ Resolve(PathOf(".") \o b) \in local_files
                 /\ Len(b) > 1 => Front(b) \in local_dirs
           /\ containers = EmptyMap
           /\ pools = {}
           /\ jobs = {}

C7_Witness ==
    /\ pc = "done"
    /\ download_output_files
    /\ Len(tasks_listed) = 1
    /\ <<"out", "x.json">> \in written
    /\ <<"out", "x.json">> \in local_files
    /\ <<"stdout.txt">> \in local_files

\* C8: wait_for_tasks_to_complete returns exactly when a round lists every
\* task as completed: once it has returned, the listing of its last round
\* shows no task that is not completed, and while it is still waiting after
\* a round, that round's listing showed a task that is not completed.
C8_ReturnsExactlyWhenAllCompleted ==
    /\ pc \notin {"wait", "failed"} =>
          /\ Rounds > 0
          /\ \A i \in DOMAIN tasks_listed : tasks_listed[i].state = "completed"
    /\ (pc = "wait" /\ Rounds > 0) =>
          \E i \in DOMAIN tasks_listed : tasks_listed[i].state # "completed"

C8_Witness ==
    /\ pc = "delete_job"
    /\ Len(tasks_listed) = 2
    /\ Rounds >= 2
    /\ tasks_listed[1].result # tasks_listed[2].result

(***************************************************************************)
(* Properties of the configuration.                                        *)
(***************************************************************************)
\* The keys a configuration file may use.
RecognizedOptions ==
    {"BATCH_ACCOUNT_NAME", "BATCH_ACCOUNT_KEY", "BATCH_ACCOUNT_URL",
     "STORAGE_ACCOUNT_NAME", "STORAGE_ACCOUNT_KEY", "JOB_NAME", "COMMAND",
     "INPUT", "OUTPUT", "VM_IMAGE", "VM_SIZE"}

\* The keys of the lines of a file whose key is not recognized, in order.
UnrecognizedKeys(file) ==
    LET NotRecognized(o) == o \notin RecognizedOptions
    IN  SelectSeq([i \in DOMAIN file |-> file[i].option], NotRecognized)

\* Every line of the file is a KEY:=VALUE pair.
AllKeyValue(file) == \A i \in DOMAIN file : file[i].sep

\* C9: for a file of KEY:=VALUE lines of which N > 0 have an unrecognized
\* key, in any order among the recognized ones, parsing fails with one
\* AttributeError that lists all N unrecognized keys.
C9_AllUnrecognizedKeysListed ==
    (/\ pc # "parse"
     /\ AllKeyValue(config_options)
     /\ Len(UnrecognizedKeys(config_options)) > 0)
        => /\ error = Raised("parse", "AttributeError")
           /\ error_options = UnrecognizedKeys(config_options)

C9_Witness ==
    /\ error = Raised("parse", "AttributeError")
    /\ AllKeyValue(config_options)
    /\ error_options = <<"BAR", "FOO">>
    /\ Len(config_options) > Len(error_options)

\* The options whose attribute is None or an empty list.
MissingFields ==
    {o \in RecognizedOptions : azurebatch[OptionAttr(o)] = <<>>}

\* C10: check_no_attributes_none fails exactly when some attribute is unset
\* or some list is empty, and its error then names every such field once.
C10_EveryMissingFieldNamed ==
    (pc \notin {"parse", "check"} /\ error.at # "parse")
        => IF MissingFields # {}
           THEN /\ error = Raised("check", "AttributeError")
                /\ {error_options[i] : i \in DOMAIN error_options} = MissingFields
                /\ Len(error_options) = Cardinality(MissingFields)
           ELSE error.at # "check"

C10_Witness ==
    /\ error = Raised("check", "AttributeError")
    /\ Len(error_options) >= 3
    /\ \E i \in DOMAIN error_options : error_options[i] = "JOB_NAME"
    /\ \E i \in DOMAIN error_options : error_options[i] = "INPUT"

(***************************************************************************)
(* Properties of the names.                                                *)
(***************************************************************************)
IsBatchCall(c) ==
    c.op \in {"pool.add", "job.add", "task.add", "task.list", "job.delete",
              "pool.delete"}

\* The creation a deletion undoes.
CreationOf(op) ==
    CASE op = "delete_container" -> "create_container"
      [] op = "job.delete" -> "job.add"
      [] op = "pool.delete" -> "pool.add"

\* C11: every call of a run addresses the pool and the job by job_name and
\* the containers by lower(job_name) + "-input" and lower(job_name) +
\* "-output", no resource exists under another name, and every deletion
\* addresses a resource the run created under exactly that name.
C11_SameNamesEverywhere ==
    calls # <<>> =>
        LET names == {<<Lower(JobName), "-input">>, <<Lower(JobName), "-output">>} IN
        /\ \A j \in DOMAIN calls :
              /\ IF IsBatchCall(calls[j])
                 THEN calls[j].target = <<JobName>>
                 ELSE /\ Len(calls[j].target) >= 2
                      /\ SubSeq(calls[j].target, 1, 2) \in names
              /\ IsDeletion(calls[j]) =>
                    \E i \in 1..(j - 1) :
                        /\ calls[i].op = CreationOf(calls[j].op)
                        /\ calls[i].target = calls[j].target
                        /\ calls[i].ok
        /\ DOMAIN containers \subseteq names
        /\ pools \subseteq {JobName}
        /\ jobs \subseteq {JobName}

C11_Witness ==
    /\ pc = "done"
    /\ JobName = "Job1"
    /\ Succeeded(IsInputDelete)
    /\ Succeeded(IsOutputDelete)
    /\ Succeeded(IsJobDelete)
    /\ Succeeded(IsPoolDelete)

(***************************************************************************)
(* Properties of the staging.                                              *)
(***************************************************************************)
\* The tokens of one INPUT value that are globbed: the only token, or every
\* token but the last.
Patterns(input_request) ==
    LET things == Split(input_request) IN
    IF Len(things) > 1 THEN Front(things) ELSE things

\* <<r, t, f>> stands for the f-th file matching the t-th pattern of the
\* r-th INPUT value.
Matched ==
    UNION {UNION {{<<r, t, f>> :
                     f \in 1..Len(Glob(Patterns(azurebatch.input[r])[t]))} :
                  t \in 1..Len(Patterns(azurebatch.input[r]))} :
           r \in 1..Len(azurebatch.input)}

MatchedFile(x) == Glob(Patterns(azurebatch.input[x[1]])[x[2]])[x[3]]

\* x comes no later than y in mapping order.
NoLater(x, y) ==
    \/ x[1] < y[1]
    \/ x[1] = y[1] /\ x[2] < y[2]
    \/ x[1] = y[1] /\ x[2] = y[2] /\ x[3] <= y[3]

Position(x) == Cardinality({y \in Matched : NoLater(y, x)})

\* C12: when upload_input_to_blob_storage returns, exactly the matched files
\* were uploaded, one upload and one returned reference per matched file in
\* mapping order; the reference's remote path is <basename> for a value of
\* one token and <last token>/<basename> for a value of several tokens.
C12_StagesEveryMatch ==
    pc = "create_pool" =>
        LET name == <<Lower(JobName), "-input">>
            uploads == SelectSeq(calls, IsBlobUpload)
        IN  /\ Len(resource_files) = Cardinality(Matched)
            /\ Len(uploads) = Cardinality(Matched)
            /\ \A x \in Matched :
                  LET things == Split(azurebatch.input[x[1]])
                      basename == Last(MatchedFile(x))
                      k == Position(x)
                  IN  /\ resource_files[k].file_path =
                            IF Len(things) = 1
                            THEN <<basename>>
                            ELSE PathOf(Last(things)) \o <<basename>>
                      /\ resource_files[k].blob_source.container = name
                      /\ uploads[k].target = name \o <<basename>>
                      /\ uploads[k].ok
            /\ DOMAIN containers[name] = {Last(MatchedFile(x)) : x \in Matched}

C12_Witness ==
    /\ pc = "create_pool"
    /\ Len(resource_files) = 3
    /\ \E k \in DOMAIN resource_files : Len(resource_files[k].file_path) > 1
    /\ \E r \in DOMAIN azurebatch.input : Len(Split(azurebatch.input[r])) > 2

(***************************************************************************)
(* Properties of the download.                                             *)
(***************************************************************************)
\* C13: when download_container returns, every blob of the container is a
\* local file at output_dir/<blob name>, the blobs without a separator
\* included, and the directories of the blobs with one exist under
\* output_dir.
C13_MirrorsUnderOutputDir ==
    pc = "downloaded" =>
        \A b \in DOMAIN containers[OutputContainerName] :
            /\ Resolve(PathOf(output_directory) \o b) \in local_files
            /\ Len(b) > 1 =>
                  Resolve(PathOf(output_directory) \o Front(b)) \in local_dirs

(***************************************************************************)
(* Properties of the failures.                                             *)
(***************************************************************************)
\* C14: a failure stops the run before every later creation: after a parse
\* or validation failure no call to a service was made at all; after a
\* staging failure no pool, job or task was asked for or exists; after a
\* failed pool creation no job or task was asked for or exists.
C14_FailureStopsLaterCreation ==
    /\ error.at \in {"parse", "check"} =>
          /\ calls = <<>>
          /\ DOMAIN containers = {}
          /\ pools = {} /\ jobs = {} /\ tasks = <<>>
    /\ error.at = "upload" =>
          /\ ~Happened(IsPoolAdd) /\ ~Happened(IsJobAdd) /\ ~Happened(IsTaskAdd)
          /\ pools = {} /\ jobs = {} /\ tasks = <<>>
    /\ error.at = "create_pool" =>
          /\ ~Happened(IsJobAdd) /\ ~Happened(IsTaskAdd)
          /\ jobs = {} /\ tasks = <<>>

C14_Witness ==
    /\ pc = "failed"
    /\ error.at = "create_pool"
    /\ Succeeded(IsBlobUpload)
    /\ ~calls[Len(calls)].ok

(***************************************************************************)
(* Properties of the wait.                                                 *)
(***************************************************************************)
\* C15: once every task of the job is completed, with whatever exit code,
\* and the poller has a round left (fewer than MaxRounds made), the wait
\* eventually returns and the run is at the first step of teardown, unless
\* the listing call itself raised.
C15_WaitReturnsOnceAllCompleted ==
    (/\ pc = "wait"
     /\ Rounds < MaxRounds
     /\ \A i \in DOMAIN tasks : tasks[i].state = "completed")
        ~> (pc = "delete_job" \/ error.at = "wait")

C15_Witness ==
    /\ pc = "delete_job"
    /\ all_tasks_completed
    /\ \E i \in DOMAIN tasks_listed : tasks_listed[i].result = "failure"
    /\ \E i \in DOMAIN tasks_listed : tasks_listed[i].result = "success"

(***************************************************************************)
(* Properties of the task.                                                 *)
(***************************************************************************)
\* The list upload_input_to_blob_storage returns for the validated JobSpec.
ReturnedByUpload ==
    ResourceFiles(StagedFiles(azurebatch.input, 1), InputContainerName, 1)

\* C16: the resource bindings of the task are exactly the references the
\* upload returned, nothing added and nothing removed, and once create_task
\* has submitted it the caller's list is still what the upload returned.
C16_TaskBindsExactlyTheInputReferences ==
    /\ \A i \in DOMAIN tasks : tasks[i].resource_files = ReturnedByUpload
    /\ Happened(IsTaskAdd) => resource_files = ReturnedByUpload

\* <<r, t>> stands for the t-th token of the r-th OUTPUT value.
OutputTokens ==
    UNION {{<<r, t>> : t \in 1..Len(Split(azurebatch.output[r]))} :
           r \in 1..Len(azurebatch.output)}

TokenPosition(x) ==
    Cardinality({y \in OutputTokens :
                    y[1] < x[1] \/ (y[1] = x[1] /\ y[2] <= x[2])})

\* C17: the output files of the task are, in order, one entry per token of
\* every OUTPUT value, each uploaded on task success, followed by the only
\* entry for std*.txt, which has no path and so lands at the container
\* root: tokens + 1 entries in all.
C17_OneEntryPerPatternThenStd ==
    \A i \in DOMAIN tasks :
        LET files == tasks[i].output_files
            n == Cardinality(OutputTokens)
        IN  /\ Len(files) = n + 1
            /\ \A x \in OutputTokens :
                  /\ files[TokenPosition(x)].file_pattern =
                        Split(azurebatch.output[x[1]])[x[2]]
                  /\ files[TokenPosition(x)].upload_condition = "task_success"
            /\ \A k \in 1..n : files[k].file_pattern # "std*.txt"
            /\ files[n + 1].file_pattern = "std*.txt"
            /\ files[n + 1].path = None

C17_Witness ==
    /\ Len(tasks) = 1
    /\ Len(tasks[1].output_files) = 3
    /\ \E r \in DOMAIN azurebatch.output : Len(Split(azurebatch.output[r])) = 2

(***************************************************************************)
(* Properties of the JobSpec.                                              *)
(***************************************************************************)
\* C18: from validation on, whatever lifecycle operations have run, every
\* attribute of the JobSpec (credentials, job_name, command, vm_size,
\* vm_image, input list, output list) has the value the parser gave it.
C18_JobSpecNeverChanges ==
    (pc # "parse" /\ error.at # "parse") =>
        azurebatch = parse_configuration_file(config_options).azurebatch

C18_Witness ==
    /\ pc = "done"
    /\ download_output_files
    /\ azurebatch.input # <<>>
    /\ azurebatch.output # <<>>
    /\ azurebatch = parse_configuration_file(config_options).azurebatch

(***************************************************************************)
(* Properties of the teardown methods.                                     *)
(***************************************************************************)
\* C19: deleting a container, a job or a pool that is already absent
\* succeeds without error: no teardown method fails for the reason that its
\* target does not exist, and it then leaves the remote state as it was.
C19_DeletingTheAbsentSucceeds ==
    error.at \in TeardownSteps => error.type # "NotFound"

(***************************************************************************)
(* Properties of the staged blobs.                                         *)
(***************************************************************************)
\* C20: when the upload returns, distinct matched files are stored as
\* distinct blobs, and the blob every returned reference names holds the
\* content of the file the reference was made for.
C20_EveryReferenceResolvesToItsFile ==
    pc = "create_pool" =>
        LET blobs == containers[<<Lower(JobName), "-input">>]
            BlobOf(x) == resource_files[Position(x)].blob_source.blob
        IN  /\ \A x \in Matched : blobs[BlobOf(x)] = MatchedFile(x)
            /\ \A x, y \in Matched :
                  MatchedFile(x) # MatchedFile(y) => BlobOf(x) # BlobOf(y)

(***************************************************************************)
(* Properties of the parser's outcomes.                                    *)
(***************************************************************************)
\* C21: parse_configuration_file either returns a JobSpec or fails with the
\* AttributeError that lists the unrecognized keys; a line without ':=' is
\* never the cause of another failure that ends parsing at that line.
C21_ParseReturnsOrListsUnrecognized ==
    error.at = "parse" =>
        /\ error.type = "AttributeError"
        /\ Len(error_options) > 0
        /\ \A i \in DOMAIN config_options :
              (config_options[i].sep /\ OptionAttr(config_options[i].option) = "")
                  => \E k \in DOMAIN error_options :
                        error_options[k] = config_options[i].option

====
